---- MODULE Spec2Model ----
(***************************************************************************)
(* LazyInitializationProvider (hardhat-core, lazy-initialization.ts):      *)
(* a proxy that delays the asynchronous creation of its provider until the *)
(* first request/send/sendAsync, and that routes the EventEmitter API to   *)
(* a private emitter until the provider exists.                            *)
(*                                                                         *)
(* Emitters are the objects of Node's "events" module.  The private        *)
(* emitter has id EmitterId; the providers made by the factory have the    *)
(* ids 1, 2, ... in the order in which their factory promises resolve.     *)
(* Only the provider this.provider refers to is kept: a provider that the  *)
(* field no longer refers to cannot be reached through the proxy again.    *)
(* A callback is opaque, except that it may read the proxy when invoked.   *)
(***************************************************************************)
EXTENDS Integers, Sequences, FiniteSets

\* ---------------------------------------------------------------- bounds
MaxCalls == 2        \* request/send/sendAsync invocations in a run
MaxOps == 2          \* state-changing EventEmitter method calls in a run

\* The event names Node's EventEmitter treats specially.
NewListenerEvent == "newListener"

RemoveListenerEvent == "removeListener"

ErrorEvent == "error"

Events == {"a", NewListenerEvent, RemoveListenerEvent, ErrorEvent}
Callbacks == {"f", "g"}

\* The event name a call without an event argument ends up with.
UndefinedEvent == "undefined"
MaxListenerValues == {1, 5}

\* ------------------------------------------------------------- constants
Undefined == 0               \* this.provider === undefined
EmitterId == 0               \* the object this._emitter
defaultMaxListeners == 10    \* events.EventEmitter.defaultMaxListeners

VARIABLES
  provider,      \* this.provider: Undefined or the id of a provider
  emitter,       \* the state of this._emitter
  resource,      \* the state of the provider this.provider refers to
  calls,         \* the request/send/sendAsync invocations made so far
  factoryCalls,  \* how many times this._providerFactory() was invoked
  ops,           \* how many state-changing EventEmitter methods were called
  lastMax,       \* the last n given to setMaxListeners before construction
  hist,          \* the first registration made through the proxy
  captured,      \* the last <<event, callback>> registered while a factory call was in flight
  seen,          \* what the callbacks invoked inside the last copy loop read through the proxy
  threw          \* whether the last EventEmitter method call on the proxy threw

vars == <<provider, emitter, resource, calls, factoryCalls, ops, lastMax, hist,
          captured, seen, threw>>

\* ------------------------------------------------- Node's EventEmitter
\* A listener function: a callback itself (wid = 0), or the wrapper that
\* once() builds around it, whose state is {fired, target, type, listener}.
Plain(f) == [fn |-> f, wid |-> 0, tgt |-> EmitterId, fired |-> FALSE]

onceWrap(target, f, w) == [fn |-> f, wid |-> w, tgt |-> target, fired |-> FALSE]

NewEmitter ==
  [ls |-> [e \in Events |-> <<>>], names |-> <<>>, max |-> defaultMaxListeners]

\* x === l
SameFunction(x, l) ==
  IF l.wid = 0 THEN x.wid = 0 /\ x.fn = l.fn ELSE x.wid = l.wid

\* list[i] === listener || list[i].listener === listener
MatchesListener(x, l) ==
  SameFunction(x, l) \/ (x.wid # 0 /\ l.wid = 0 /\ x.fn = l.fn)

WithoutName(names, ev) == SelectSeq(names, LAMBDA n : n # ev)

RemoveAt(s, i) == SubSeq(s, 1, i - 1) \o SubSeq(s, i + 1, Len(s))

emSetMaxListeners(em, n) == [em EXCEPT !.max = n]

emGetMaxListeners(em) == em.max

emRawListeners(em, ev) == em.ls[ev]

\* listeners(): every wrapper is replaced by the callback it wraps
RECURSIVE Unwrapped(_)
Unwrapped(list) ==
  IF list = <<>> THEN <<>> ELSE <<Head(list).fn>> \o Unwrapped(Tail(list))

emListeners(em, ev) == Unwrapped(em.ls[ev])

emListenerCount(em, ev) == Len(em.ls[ev])

emEventNames(em) == em.names

\* The objects of the heap: h.em is this._emitter, h.res the provider with
\* id h.pid, which is what this.provider refers to.  h.inv lists the
\* callbacks invoked so far by the operation under way, h.fired the once
\* wrappers that have fired during it, h.live the array that a
\* removeAllListeners under way iterates, and h.threw whether the operation
\* has thrown.
Obj(h, id) ==
  IF id = EmitterId THEN h.em ELSE IF id = h.pid THEN h.res ELSE NewEmitter

SetObj(h, id, e) ==
  IF id = EmitterId THEN [h EXCEPT !.em = e]
  ELSE IF id = h.pid THEN [h EXCEPT !.res = e]
  ELSE h

\* A callback is invoked.  What it does is its own business, except that
\* it may read the proxy: recorded with it are the rawListeners(event) of
\* every event and the getMaxListeners() the proxy returns at that moment.
Invoke(h, f) ==
  LET e == IF h.pid = Undefined THEN h.em ELSE h.res
  IN [h EXCEPT !.inv = Append(@, [fn |-> f, raw |-> e.ls,
                                  max |-> emGetMaxListeners(e)])]

RECURSIVE MarkFiredSeq(_, _)
MarkFiredSeq(list, w) ==
  IF list = <<>> THEN <<>>
  ELSE <<IF Head(list).wid = w THEN [Head(list) EXCEPT !.fired = TRUE] ELSE Head(list)>>
       \o MarkFiredSeq(Tail(list), w)

RECURSIVE MarkFiredNames(_, _, _)
MarkFiredNames(em, w, names) ==
  IF names = <<>> THEN em
  ELSE MarkFiredNames([em EXCEPT !.ls[Head(names)] = MarkFiredSeq(@, w)], w, Tail(names))

\* The wrapper is marked under every event name em has listeners for.
MarkFiredIn(em, w) == MarkFiredNames(em, w, emEventNames(em))

\* state.fired = true, for the one wrapper with this id
MarkFired(h, w) ==
  [h EXCEPT !.em = MarkFiredIn(h.em, w), !.res = MarkFiredIn(h.res, w),
            !.fired = @ \cup {w}]

\* The function object a reference l refers to, as it is now.
Referent(h, l) ==
  IF l.wid # 0 /\ l.wid \in h.fired THEN [l EXCEPT !.fired = TRUE] ELSE l

\* No removeAllListeners is under way.
NoLive == [on |-> FALSE, id |-> EmitterId, ev |-> "", arr |-> <<>>]

\* !state.fired for the wrapper l refers to
NotFired(h, l) == ~l.fired /\ l.wid \notin h.fired

RECURSIVE emEmit(_, _, _)

\* EventEmitter.prototype.removeListener: the last matching position goes,
\* and if the object then has 'removeListener' listeners that event is
\* emitted.  The removal is made in place, so it shows in the array a
\* removeAllListeners under way holds, until one listener is left: then
\* events[type] becomes that listener and the array is left behind.
emRemoveListener(h, id, ev, l) ==
  LET em == Obj(h, id)
      list == em.ls[ev]
      hits == {i \in 1..Len(list) : MatchesListener(list[i], l)}
  IN IF hits = {} THEN h
     ELSE LET position == CHOOSE i \in hits : \A j \in hits : j <= i
              rest == RemoveAt(list, position)
              em1 == [em EXCEPT !.ls[ev] = rest,
                                !.names = IF rest = <<>> THEN WithoutName(@, ev) ELSE @]
              iterated == h.live.on /\ h.live.id = id /\ h.live.ev = ev
              h1 == [SetObj(h, id, em1) EXCEPT
                       !.live = IF iterated
                                THEN [@ EXCEPT !.arr = rest, !.on = Len(rest) > 1]
                                ELSE @]
          IN IF em1.ls[RemoveListenerEvent] # <<>>
             THEN emEmit(h1, id, RemoveListenerEvent)
             ELSE h1

\* onceWrapper: if (!this.fired) { this.target.removeListener(this.type,
\* this.wrapFn); this.fired = true; return this.listener.apply(...) }
onceWrapper(h, ev, l) ==
  IF ~NotFired(h, l) THEN h
  ELSE Invoke(MarkFired(emRemoveListener(h, l.tgt, ev, l), l.wid), l.fn)

\* One listener of the copied array is called.
CallListener(h, ev, l) ==
  IF l.wid = 0 THEN Invoke(h, l.fn) ELSE onceWrapper(h, ev, l)

RECURSIVE emitLoop(_, _, _)
emitLoop(h, ev, todo) ==
  IF todo = <<>> THEN h
  ELSE emitLoop(CallListener(h, ev, Head(todo)), ev, Tail(todo))

\* EventEmitter.prototype.emit on object id: the listeners array is copied
\* and every listener of the copy is called in order.
emEmit(h, id, ev) == emitLoop(h, ev, Obj(h, id).ls[ev])

\* emit('error') with no 'error' listener throws.
emEmitThrows(em, ev) == ev = ErrorEvent /\ em.ls[ev] = <<>>

\* emit's return value: whether the event had listeners
emEmitResult(em, ev) == em.ls[ev] # <<>>

\* _addListener(target, type, listener, prepend): if the object has
\* 'newListener' listeners that event is emitted first, then the listener
\* is added.
emAddListener(h, id, ev, l, prepend) ==
  LET h1 == IF Obj(h, id).ls[NewListenerEvent] # <<>>
            THEN emEmit(h, id, NewListenerEvent)
            ELSE h
      em == Obj(h1, id)
  IN SetObj(h1, id,
            [em EXCEPT !.ls[ev] = IF prepend THEN <<l>> \o @ ELSE Append(@, l),
                       !.names = IF em.ls[ev] = <<>> THEN Append(@, ev) ELSE @])

RECURSIVE removeEach(_, _, _, _)
\* for (let i = listeners.length - 1; i >= 0; i--)
\*   this.removeListener(type, listeners[i])
\* over the array itself: removeListener(type, undefined) throws when the
\* array has become shorter than i.
removeEach(h, id, ev, i) ==
  IF i < 1 THEN h
  ELSE IF i > Len(h.live.arr) THEN [h EXCEPT !.threw = TRUE]
  ELSE removeEach(emRemoveListener(h, id, ev, h.live.arr[i]), id, ev, i - 1)

\* EventEmitter.prototype.removeAllListeners(type) called with one argument:
\* the listeners registered under that name are dropped, and nothing else;
\* one by one, last first, if the object has 'removeListener' listeners.
emRemoveAll(h, id, ev) ==
  LET em == Obj(h, id)
  IN IF ev \notin Events THEN h
     ELSE IF em.ls[RemoveListenerEvent] = <<>>
     THEN SetObj(h, id, [em EXCEPT !.ls[ev] = <<>>, !.names = WithoutName(@, ev)])
     ELSE LET listeners == em.ls[ev]
              h1 == [h EXCEPT !.live = [on |-> Len(listeners) > 1, id |-> id,
                                        ev |-> ev, arr |-> listeners]]
          IN [removeEach(h1, id, ev, Len(listeners)) EXCEPT !.live = NoLive]

\* ------------------------------------------- LazyInitializationProvider
\* _getEmitter(): the object the EventEmitter API is routed to
getEmitter == IF provider = Undefined THEN EmitterId ELSE provider

Heap ==
  [em |-> emitter, res |-> resource, pid |-> provider, inv |-> <<>>,
   fired |-> {}, live |-> NoLive,
   threw |-> FALSE]

\* if (this.provider === undefined)
mustConstruct(p) == p = Undefined

\* Faulty variant: a rejected factory promise resets this.provider.
assignProviderResetOnReject(p, outcome) == IF outcome.ok THEN outcome.val ELSE Undefined

\* this.provider = await this._providerFactory(): a rejected factory
\* promise throws at the await, and the assignment does not happen
assignProvider(p, outcome) == IF outcome.ok THEN outcome.val ELSE p

\* const recordedEvents = this._emitter.eventNames()
recordedEvents(em) == emEventNames(em)

\* this.provider.on(event, listener);
\* this._emitter.removeListener(event, listener)
\* where listener is the function object itself, fired or not by now
copyListener(h, r, ev, l) ==
  emRemoveListener(emAddListener(h, r, ev, Referent(h, l), FALSE), EmitterId, ev, l)

RECURSIVE copyListeners(_, _, _, _)
\* for (const listener of listeners) over the copy rawListeners returned
copyListeners(h, r, ev, todo) ==
  IF todo = <<>> THEN h
  ELSE copyListeners(copyListener(h, r, ev, Head(todo)), r, ev, Tail(todo))

RECURSIVE copyEvents(_, _, _)
\* for (const event of recordedEvents)
copyEvents(h, r, evs) ==
  IF evs = <<>> THEN h
  ELSE copyEvents(copyListeners(h, r, Head(evs), emRawListeners(h.em, Head(evs))),
                  r, Tail(evs))

\* Faulty variant: the max-listeners value is not carried over.
applyMaxListenersSkipped(h, r) == h

\* this.provider.setMaxListeners(this._emitter.getMaxListeners())
applyMaxListeners(h, r) ==
  SetObj(h, r, emSetMaxListeners(Obj(h, r), emGetMaxListeners(h.em)))

\* The rest of _initProvider once the factory's promise has resolved with
\* the new provider r, which has no listeners yet and which this.provider
\* already refers to.
migrate(h, r) == applyMaxListeners(copyEvents(h, r, recordedEvents(h.em)), r)

\* The error the k-th factory invocation rejects with.
FactoryError(k) == <<"FactoryError", k>>

NoError == <<>>

\* A request/send/sendAsync invocation as it leaves its synchronous part:
\* awaiting the factory promise it created, or _initProvider having returned.
NewCall(kind, construct, k) ==
  [kind |-> kind, st |-> IF construct THEN "await" ELSE "ready",
   fid |-> IF construct THEN k ELSE 0,
   err |-> NoError, rej |-> NoError, cb |-> <<>>, fwd |-> Undefined]

\* Faulty variant: sendAsync lets the rejection propagate like request and send.
reportFailureRethrow(c, e) == [c EXCEPT !.st = "failed", !.rej = e]

\* Faulty variant: sendAsync chains no rejection handler, so a failed
\* initialization never reaches its callback.
reportFailureUnhandled(c, e) ==
  IF c.kind = "sendAsync"
  THEN [c EXCEPT !.st = "unhandled"]
  ELSE [c EXCEPT !.st = "failed", !.rej = e]

\* How a rejected _initProvider reaches the caller: request and send reject
\* their own promise; sendAsync calls callback(e, null).
reportFailure(c, e) ==
  IF c.kind = "sendAsync"
  THEN [c EXCEPT !.st = "failed", !.cb = Append(@, [err |-> e, res |-> "null"])]
  ELSE [c EXCEPT !.st = "failed", !.rej = e]

InFlight == \E i \in 1..Len(calls) : calls[i].st = "await"

\* A request/send/sendAsync invocation up to its first await: _initProvider
\* tests this.provider and, when it is undefined, invokes the factory.
Call(kind) ==
  /\ Len(calls) < MaxCalls
  /\ LET construct == mustConstruct(provider)
     IN /\ factoryCalls' = IF construct THEN factoryCalls + 1 ELSE factoryCalls
        /\ calls' = Append(calls, NewCall(kind, construct, factoryCalls + 1))
  /\ UNCHANGED <<provider, emitter, resource, ops, lastMax, hist, captured, seen, threw>>

request == Call("request")

send == Call("send")

sendAsync == Call("sendAsync")

\* How often callback f is among the invocations inv.
Count(inv, f) == Cardinality({i \in 1..Len(inv) : inv[i].fn = f})

\* hist after an operation that invoked the callbacks inv.
AddInvocations(hs, inv) ==
  IF hs.k = "once" THEN [hs EXCEPT !.n = @ + Count(inv, hs.fn)] ELSE hs

NoCapture == <<>>

\* captured after an operation that invoked the callbacks inv: a captured
\* registration whose callback was invoked is no longer followed.
CapturedAfter(cap, inv) ==
  IF cap # NoCapture /\ Count(inv, cap[2]) > 0 THEN NoCapture ELSE cap

\* The factory promise awaited by call i resolves: _initProvider resumes,
\* assigns the provider, copies the recorded listeners and returns.
initProviderResolved(i) ==
  /\ calls[i].st = "await"
  /\ LET r == calls[i].fid
         h == migrate([em |-> emitter, res |-> NewEmitter, pid |-> r, inv |-> <<>>,
                       fired |-> {}, live |-> NoLive,
                       threw |-> FALSE], r)
     IN /\ provider' = assignProvider(provider, [ok |-> TRUE, val |-> r])
        /\ emitter' = h.em
        /\ resource' = h.res
        /\ seen' = h.inv
        /\ hist' = AddInvocations(hist, h.inv)
        /\ captured' = CapturedAfter(captured, h.inv)
  /\ calls' = [calls EXCEPT ![i].st = "ready"]
  /\ UNCHANGED <<factoryCalls, ops, lastMax, threw>>

\* Faulty variant: a rejected factory discards what the private emitter holds.
initProviderRejectedClears(i) ==
  /\ calls[i].st = "await"
  /\ provider' = assignProvider(provider, [ok |-> FALSE, val |-> Undefined])
  /\ calls' = [calls EXCEPT ![i].st = "thrown", ![i].err = FactoryError(calls[i].fid)]
  /\ emitter' = [emitter EXCEPT !.ls = [e \in Events |-> <<>>], !.names = <<>>]
  /\ UNCHANGED <<resource, factoryCalls, ops, lastMax, hist, captured, seen, threw>>

\* The factory promise awaited by call i rejects: _initProvider resumes at
\* the await, which throws, so its own promise is rejected with that error.
\* The caller learns of it in a later job.
initProviderRejected(i) ==
  /\ calls[i].st = "await"
  /\ provider' = assignProvider(provider, [ok |-> FALSE, val |-> Undefined])
  /\ calls' = [calls EXCEPT ![i].st = "thrown", ![i].err = FactoryError(calls[i].fid)]
  /\ UNCHANGED <<emitter, resource, factoryCalls, ops, lastMax, hist, captured, seen, threw>>

\* The job after _initProvider's promise was rejected: await
\* this._initProvider() throws in request and send, and sendAsync's
\* rejection handler runs.
fail(i) ==
  /\ calls[i].st = "thrown"
  /\ calls' = [calls EXCEPT ![i] = reportFailure(@, calls[i].err)]
  /\ UNCHANGED <<provider, emitter, resource, factoryCalls, ops, lastMax, hist, captured, seen, threw>>

\* After await this._initProvider(): this.provider!.request(args),
\* this.provider!.send(method, params), this.provider!.sendAsync(payload, cb)
forward(i) ==
  /\ calls[i].st = "ready"
  /\ calls' = [calls EXCEPT ![i].st = "forwarded", ![i].fwd = provider]
  /\ UNCHANGED <<provider, emitter, resource, factoryCalls, ops, lastMax, hist, captured, seen, threw>>

\* ------------------------------------------------ EventEmitter methods
\* The wrapper ids in use; a new wrapper takes the least id not in use.
WidsOf(em) == UNION {{em.ls[e][i].wid : i \in 1..Len(em.ls[e])} : e \in Events}

LiveWids == WidsOf(emitter) \cup WidsOf(resource)

FreshWid == CHOOSE w \in (1..MaxOps) \ LiveWids :
              \A v \in (1..MaxOps) \ LiveWids : w <= v

\* One more state-changing EventEmitter method call.
CountOp == ops < MaxOps /\ ops' = ops + 1

NoValue == <<>>

\* hist follows the first registration made through the proxy while it is
\* a fire-once registration made before construction whose callback was
\* not registered again nor removed by the caller: its event, whether the
\* event was emitted through the proxy since, and how many times the
\* callback was invoked.
NoHist == [k |-> "none"]

OtherHist == [k |-> "other"]

HistAfterRegister(ev, f, once) ==
  IF hist.k = "none"
  THEN IF once /\ provider = Undefined
       THEN [k |-> "once", fn |-> f, ev |-> ev, emitted |-> FALSE, n |-> 0]
       ELSE OtherHist
  ELSE IF hist.k = "once" /\ hist.fn = f THEN OtherHist
  ELSE hist

HistAfterRemove(evs, fs) ==
  IF hist.k = "once" /\ hist.ev \in evs /\ hist.fn \in fs THEN OtherHist ELSE hist

HistAfterEmit(ev, inv) ==
  IF hist.k = "once"
  THEN [hist EXCEPT !.emitted = @ \/ hist.ev = ev, !.n = @ + Count(inv, hist.fn)]
  ELSE hist

\* this._getEmitter().on / once / prependListener / prependOnceListener
Register(ev, f, once, prepend) ==
  LET g == getEmitter
      l == IF once THEN onceWrap(g, f, FreshWid) ELSE Plain(f)
      h == emAddListener(Heap, g, ev, l, prepend)
  IN /\ CountOp
     /\ emitter' = h.em
     /\ resource' = h.res
     /\ hist' = AddInvocations(HistAfterRegister(ev, f, once), h.inv)
     /\ captured' = IF InFlight THEN <<ev, f>> ELSE CapturedAfter(captured, h.inv)
     /\ threw' = FALSE
     /\ UNCHANGED <<provider, calls, factoryCalls, lastMax, seen>>

\* Faulty variant: on() awaits nothing but starts _initProvider.
onStartsInit ==
  /\ \E ev \in Events, f \in Callbacks :
       LET h == emAddListener(Heap, getEmitter, ev, Plain(f), FALSE)
       IN emitter' = h.em /\ resource' = h.res
  /\ CountOp
  /\ factoryCalls' = IF mustConstruct(provider) THEN factoryCalls + 1 ELSE factoryCalls
  /\ threw' = FALSE
  /\ UNCHANGED <<provider, calls, lastMax, hist, captured, seen>>

addListener == \E ev \in Events, f \in Callbacks : Register(ev, f, FALSE, FALSE)

on == \E ev \in Events, f \in Callbacks : Register(ev, f, FALSE, FALSE)

once == \E ev \in Events, f \in Callbacks : Register(ev, f, TRUE, FALSE)

prependListener == \E ev \in Events, f \in Callbacks : Register(ev, f, FALSE, TRUE)

prependOnceListener == \E ev \in Events, f \in Callbacks : Register(ev, f, TRUE, TRUE)

\* this._getEmitter().removeListener(event, listener)
Unregister(ev, f) ==
  LET g == getEmitter
      h == emRemoveListener(Heap, g, ev, Plain(f))
  IN /\ CountOp
     /\ emitter' = h.em
     /\ resource' = h.res
     /\ hist' = AddInvocations(HistAfterRemove({ev}, {f}), h.inv)
     /\ captured' = IF captured = <<ev, f>> THEN NoCapture
                    ELSE CapturedAfter(captured, h.inv)
     /\ threw' = FALSE
     /\ UNCHANGED <<provider, calls, factoryCalls, lastMax, seen>>

removeListener == \E ev \in Events, f \in Callbacks : Unregister(ev, f)

off == \E ev \in Events, f \in Callbacks : Unregister(ev, f)

\* this._getEmitter().removeAllListeners(event): the proxy always passes
\* one argument, so a call without an event names the event "undefined",
\* under which nothing is registered.
removeAllListeners ==
  \E ev \in Events \cup {UndefinedEvent} :
    LET g == getEmitter
        h == emRemoveAll(Heap, g, ev)
    IN /\ CountOp
       /\ emitter' = h.em
       /\ resource' = h.res
       /\ hist' = AddInvocations(HistAfterRemove({ev}, Callbacks), h.inv)
       /\ captured' = IF captured # NoCapture /\ captured[1] = ev
                      THEN NoCapture ELSE CapturedAfter(captured, h.inv)
       /\ threw' = h.threw
       /\ UNCHANGED <<provider, calls, factoryCalls, lastMax, seen>>

\* this._getEmitter().setMaxListeners(n)
setMaxListeners ==
  \E n \in MaxListenerValues :
    LET g == getEmitter
        h == SetObj(Heap, g, emSetMaxListeners(Obj(Heap, g), n))
    IN /\ CountOp
       /\ emitter' = h.em
       /\ resource' = h.res
       /\ lastMax' = IF provider = Undefined THEN <<n>> ELSE lastMax
       /\ threw' = FALSE
       /\ UNCHANGED <<provider, calls, factoryCalls, hist, captured, seen>>

\* this._getEmitter().emit(event, ...args): throws for 'error' when no
\* 'error' listener is registered, and calls the listeners otherwise.
emit ==
  \E ev \in Events :
    LET g == getEmitter
        throws == emEmitThrows(Obj(Heap, g), ev)
        h == IF throws THEN Heap ELSE emEmit(Heap, g, ev)
    IN /\ CountOp
       /\ emitter' = h.em
       /\ resource' = h.res
       /\ hist' = IF throws THEN hist ELSE HistAfterEmit(ev, h.inv)
       /\ captured' = IF captured # NoCapture /\ captured[1] = ev /\ ~throws
                      THEN NoCapture ELSE CapturedAfter(captured, h.inv)
       /\ threw' = throws
       /\ UNCHANGED <<provider, calls, factoryCalls, lastMax, seen>>

\* The introspection methods return a value and change nothing.
proxyGetMaxListeners == emGetMaxListeners(Obj(Heap, getEmitter))

proxyListeners(ev) == emListeners(Obj(Heap, getEmitter), ev)

proxyRawListeners(ev) == emRawListeners(Obj(Heap, getEmitter), ev)

proxyEventNames == emEventNames(Obj(Heap, getEmitter))

proxyListenerCount(ev) == emListenerCount(Obj(Heap, getEmitter), ev)

getMaxListeners == proxyGetMaxListeners \in Nat /\ UNCHANGED vars

listeners == (\A ev \in Events : Len(proxyListeners(ev)) >= 0) /\ UNCHANGED vars

rawListeners == (\A ev \in Events : Len(proxyRawListeners(ev)) >= 0) /\ UNCHANGED vars

eventNames == Len(proxyEventNames) >= 0 /\ UNCHANGED vars

listenerCount == (\A ev \in Events : proxyListenerCount(ev) >= 0) /\ UNCHANGED vars

\* --------------------------------------------------------- specification
Init ==
  /\ provider = Undefined
  /\ emitter = NewEmitter
  /\ resource = NewEmitter
  /\ calls = <<>>
  /\ factoryCalls = 0
  /\ ops = 0
  /\ lastMax = NoValue
  /\ hist = NoHist
  /\ captured = NoCapture
  /\ seen = <<>>
  /\ threw = FALSE

Next ==
  \/ request
  \/ send
  \/ sendAsync
  \/ \E i \in 1..Len(calls) : initProviderResolved(i)
  \/ \E i \in 1..Len(calls) : initProviderRejected(i)
  \/ \E i \in 1..Len(calls) : fail(i)
  \/ \E i \in 1..Len(calls) : forward(i)
  \/ addListener
  \/ on
  \/ once
  \/ prependListener
  \/ prependOnceListener
  \/ removeListener
  \/ off
  \/ removeAllListeners
  \/ setMaxListeners
  \/ getMaxListeners
  \/ listeners
  \/ rawListeners
  \/ emit
  \/ eventNames
  \/ listenerCount

Spec == Init /\ [][Next]_vars

\* The factory promise awaited by call i settles.
factorySettles(i) ==
  i \in 1..Len(calls) /\ (initProviderRejected(i) \/ initProviderResolved(i))

\* The continuation of call i after await this._initProvider() is run.
resumed(i) == i \in 1..Len(calls) /\ (forward(i) \/ fail(i))

\* Every factory promise settles, and the job queue runs the continuation
\* of a call whose _initProvider has returned.
FairSpec ==
  /\ Spec
  /\ \A i \in 1..MaxCalls : WF_vars(factorySettles(i))
  /\ \A i \in 1..MaxCalls : WF_vars(resumed(i))

\* ------------------------------------------------------------- claims
CallIds == 1..Len(calls)

Failed == {i \in CallIds : calls[i].st = "failed"}

\* The calls whose factory invocation failed, reported to the caller or not yet.
Rejected == {i \in CallIds : calls[i].st \in {"thrown", "failed"}}

Range(seq) == {seq[i] : i \in 1..Len(seq)}

IsRemoteCall == request \/ send \/ sendAsync

\* C1: while the factory operation started by the first remote call is
\* still in flight, the factory has been invoked exactly once, however many
\* remote calls were issued meanwhile.
C1_SingleConstruction ==
  (Len(calls) >= 1 /\ calls[1].st = "await") => factoryCalls = 1

\* C2: when the first construction completes, listeners(event) and
\* listenerCount(event) of the proxy are, for every event name, what they
\* were just before.
C2_ListenersPreserved ==
  [][\A i \in CallIds :
       (provider = Undefined /\ initProviderResolved(i)) =>
         \A ev \in Events :
           /\ proxyListeners(ev)' = proxyListeners(ev)
           /\ proxyListenerCount(ev)' = proxyListenerCount(ev)]_vars

\* C3: once every initialization has completed successfully, a listener
\* registered through the proxy while a factory operation was in flight
\* (and not removed or fired since) is among the proxy's listeners(event).
C3_InFlightRegistrationKept ==
  (captured # NoCapture /\ provider # Undefined /\ ~InFlight /\ Rejected = {})
    => captured[2] \in Range(proxyListeners(captured[1]))

\* C4: the callback of a fire-once listener registered before construction
\* is invoked at most once, and exactly once as soon as its event has been
\* emitted through the proxy.
C4_FireOnceExactlyOnce ==
  hist.k = "once" => (hist.n <= 1 /\ (hist.emitted => hist.n = 1))

\* C5: a fire-once listener that migration registered on the provider is
\* removed from it by its first invocation: no fired wrapper is registered
\* on the provider the proxy delegates to.
C5_FireOnceRemovedAfterFiring ==
  provider # Undefined =>
    \A ev \in Events : \A k \in 1..Len(resource.ls[ev]) : ~resource.ls[ev][k].fired

\* C6: a rejected factory leaves the proxy uninitialized and its listeners
\* as they were; the next remote call invokes the factory again; and the
\* construction that then succeeds registers every listener of the private
\* emitter on the provider, in order.
C6_FailureRecovery ==
  [][/\ \A i \in CallIds :
          (provider = Undefined /\ initProviderRejected(i)) =>
            /\ provider' = Undefined
            /\ \A ev \in Events : proxyRawListeners(ev)' = proxyRawListeners(ev)
     /\ (provider = Undefined /\ Rejected # {} /\ IsRemoteCall) =>
          factoryCalls' = factoryCalls + 1
     /\ \A i \in CallIds :
          (provider = Undefined /\ Rejected # {} /\ initProviderResolved(i)) =>
            /\ provider' # Undefined
            /\ \A ev \in Events :
                 emListeners(resource', ev) = emListeners(emitter, ev)]_vars

\* C7: a sendAsync whose initialization failed has had its callback invoked
\* exactly once, with the factory's error and no result; its failure was not
\* propagated and it was not forwarded to a provider.
C7_SendAsyncFailureByCallback ==
  \A i \in CallIds :
    calls[i].kind = "sendAsync" =>
      /\ calls[i].rej = NoError
      /\ calls[i].st = "failed" =>
           /\ calls[i].cb = <<[err |-> FactoryError(calls[i].fid), res |-> "null"]>>
           /\ calls[i].fwd = Undefined
      /\ calls[i].st # "failed" => calls[i].cb = <<>>

C7_Witness ==
  \E i \in CallIds :
    calls[i].kind = "sendAsync" /\ calls[i].st = "failed" /\ Len(calls[i].cb) = 1

\* C8: when a factory invocation fails, the initialization of every request
\* and send that is awaiting it at that moment fails with that same error,
\* and that error is what the call then reports.
C8_FailureReachesEveryWaiter ==
  [][/\ \A i \in CallIds :
          initProviderRejected(i) =>
            \A j \in CallIds :
              (calls[j].st = "await" /\ calls[j].kind \in {"request", "send"}) =>
                /\ calls'[j].st = "thrown"
                /\ calls'[j].err = FactoryError(calls[i].fid)
     /\ \A j \in CallIds :
          (fail(j) /\ calls[j].kind \in {"request", "send"}) =>
            calls'[j].rej = calls[j].err]_vars

\* C9: when a construction completes, the provider the proxy delegates to
\* reports the last value given to setMaxListeners before construction.
C9_MaxListenersCarriedOver ==
  [][\A i \in CallIds :
       (lastMax # NoValue /\ initProviderResolved(i)) =>
         proxyGetMaxListeners' = lastMax[1]]_vars

\* setMaxListeners was called before construction, and the provider
\* reports the value it was last given.
C9_Witness ==
  /\ provider # Undefined
  /\ ops = 2
  /\ lastMax # NoValue
  /\ emGetMaxListeners(resource) = lastMax[1]
  /\ emGetMaxListeners(emitter) = lastMax[1]

IsEmitterMethod ==
  \/ addListener \/ on \/ once \/ prependListener \/ prependOnceListener
  \/ removeListener \/ off \/ removeAllListeners
  \/ setMaxListeners \/ getMaxListeners
  \/ listeners \/ rawListeners \/ emit \/ eventNames \/ listenerCount

\* C10: no EventEmitter method invokes the factory, changes this.provider
\* or touches a pending initialization.
C10_EmitterMethodsNeverInitialize ==
  [][UNCHANGED <<factoryCalls, provider, calls>> \/ ~IsEmitterMethod]_vars

\* Listeners were registered and an event emitted through the proxy with no
\* remote call made: the factory was not invoked.
C10_Witness ==
  /\ ops = MaxOps
  /\ calls = <<>>
  /\ factoryCalls = 0
  /\ provider = Undefined
  /\ hist.k = "once" /\ hist.n = 1

\* What the proxy shows of its listeners: per event the registered
\* listeners with their fire-once wrappers, the event names, the limit.
ProxyView ==
  [raw |-> [ev \in Events |-> proxyRawListeners(ev)],
   names |-> proxyEventNames,
   max |-> proxyGetMaxListeners]

\* C11: once a provider has been constructed, every EventEmitter method of
\* the proxy acts on the provider alone, and the proxy's listener view stays
\* that provider's listener state: no step of a remote call changes it.
C11_ProxyActsAsResource ==
  [][provider # Undefined =>
       /\ IsEmitterMethod => (emitter' = emitter /\ provider' = provider)
       /\ ~IsEmitterMethod => ProxyView' = ProxyView]_vars

\* C12: a state-changing EventEmitter method called on the proxy while
\* this.provider is undefined throws.
C12_ThrowsBeforeInit ==
  [][(provider = Undefined /\ IsEmitterMethod) => threw']_vars

\* C13: once the proxy holds a provider the private emitter holds no
\* listener for any event, whatever was registered before construction.
C13_BufferDrained ==
  provider # Undefined => \A ev \in Events : emitter.ls[ev] = <<>>

\* C14: after initialization has completed, a callback that was registered
\* through the proxy once, before construction, and neither removed nor
\* fired since, is registered on the provider the proxy delegates to
\* exactly once for its event.
C14_MigratedExactlyOnce ==
  (hist.k = "once" /\ ~hist.emitted /\ hist.n = 0 /\ provider # Undefined /\ ~InFlight) =>
    Cardinality({k \in 1..Len(resource.ls[hist.ev]) : resource.ls[hist.ev][k].fn = hist.fn}) = 1

\* The calls whose own factory promise has resolved: each of them has run
\* the copy loop and the setMaxListeners call of _initProvider once.
Migrated == {i \in CallIds : calls[i].fid # 0 /\ calls[i].st \in {"ready", "forwarded"}}

\* C15: over the proxy's lifetime the copy of the recorded listeners and of
\* the max-listeners value onto a provider runs exactly once, however many
\* remote calls were issued while the factory operation was in flight.
C15_MigrationRunsOnce ==
  provider # Undefined => Cardinality(Migrated) = 1

\* C16: a remote call is forwarded, and an EventEmitter method routed to a
\* provider, only once a construction has completed for the provider the
\* proxy holds; the step that completes a construction has applied the
\* private emitter's max-listeners value; and a callback that runs inside
\* that step and reads the proxy finds every listener of the private
\* emitter registered and that max-listeners value in force.
C16_ForwardedAfterMigration ==
  [][/\ \A i \in CallIds :
          initProviderResolved(i) =>
            /\ calls[i].st = "await" /\ calls'[i].st = "ready"
            /\ provider' = calls[i].fid
            /\ emGetMaxListeners(resource') = emGetMaxListeners(emitter)
            /\ \A k \in 1..Len(seen') :
                 /\ \A ev \in Events : Len(seen'[k].raw[ev]) = emListenerCount(emitter, ev)
                 /\ seen'[k].max = emGetMaxListeners(emitter)
     /\ \A i \in CallIds :
          forward(i) =>
            /\ calls[i].st = "ready"
            /\ provider # Undefined
            /\ calls'[i].fwd = provider
            /\ \E j \in Migrated : calls[j].fid = provider
     /\ (IsEmitterMethod /\ provider # Undefined) =>
          \E j \in Migrated : calls[j].fid = provider]_vars

\* C17: a rejected factory changes neither the private emitter nor what the
\* proxy shows: per event the listeners, their order and which of them are
\* fire-once wrappers, the event names and the max-listeners value are the
\* same just after the rejection as just before it.
C17_FailureLeavesBufferUnchanged ==
  [][\A i \in CallIds :
       initProviderRejected(i) => (emitter' = emitter /\ ProxyView' = ProxyView)]_vars

\* The only factory invocation failed, and the private emitter holds a
\* persistent listener and a fire-once wrapper on one event, the later of
\* them registered while that invocation was in flight.
C17_Witness ==
  /\ Len(calls) = 1
  /\ Failed = {1}
  /\ provider = Undefined
  /\ captured # NoCapture
  /\ \E ev \in {captured[1]} :
       /\ Len(emitter.ls[ev]) = 2
       /\ \E k \in 1..2 : emitter.ls[ev][k].wid = 0
       /\ \E k \in 1..2 : emitter.ls[ev][k].wid # 0

\* The proxy's state as the code holds it: initialized once this.provider is
\* defined; otherwise initializing while a factory promise is awaited.
ProxyState ==
  IF provider # Undefined THEN "Initialized"
  ELSE IF InFlight THEN "Initializing"
  ELSE "Uninitialized"

StateRank(s) ==
  CASE s = "Uninitialized" -> 0
    [] s = "Initializing" -> 1
    [] s = "Initialized" -> 2

\* C18 as stated: the proxy's state only ever moves forward along
\* Uninitialized, Initializing, Initialized, also when the factory fails.
C18_MonotonicState ==
  [][StateRank(ProxyState') >= StateRank(ProxyState)]_vars

\* C18: the proxy's state moves from Uninitialized to Initializing by a
\* remote call, from Initializing to Initialized by a resolved factory
\* promise, and from Initializing back to Uninitialized only by a rejected
\* factory promise with no other invocation in flight; it never leaves
\* Initialized and never reaches it from Uninitialized in one step.
C18_StateTransitions ==
  [][/\ ProxyState = "Initialized" => ProxyState' = "Initialized"
     /\ ProxyState = "Uninitialized" => ProxyState' \in {"Uninitialized", "Initializing"}
     /\ (ProxyState = "Uninitialized" /\ ProxyState' = "Initializing") => IsRemoteCall
     /\ (ProxyState = "Initializing" /\ ProxyState' = "Initialized") =>
          \E i \in CallIds : initProviderResolved(i)
     /\ (ProxyState = "Initializing" /\ ProxyState' = "Uninitialized") =>
          \E i \in CallIds : initProviderRejected(i) /\ ~InFlight']_vars

\* The first factory invocation failed, which took the proxy back to
\* Uninitialized, and the second one has initialized it.
C18_Witness ==
  /\ Len(calls) = 2
  /\ calls[1].st = "failed"
  /\ calls[2].fid = 2
  /\ ProxyState = "Initialized"

Completed(i) == i \in CallIds /\ calls[i].st \in {"forwarded", "failed"}

\* C19: provided every factory promise settles, every request, send and
\* sendAsync invocation is eventually forwarded to a provider or has
\* reported the factory's failure; none awaits initialization forever.
C19_EveryCallCompletes ==
  \A i \in 1..MaxCalls : (i \in CallIds) ~> Completed(i)

\* Of two calls that awaited their factory promises one was forwarded to a
\* provider and the other reported the failure.
C19_Witness ==
  /\ Len(calls) = 2
  /\ \A i \in CallIds : calls[i].fid # 0
  /\ \E i \in CallIds : calls[i].st = "forwarded" /\ calls[i].fwd # Undefined
  /\ \E i \in CallIds : calls[i].st = "failed"

\* C20: once this.provider holds a provider it is never assigned again, so
\* every call and every later EventEmitter method reaches that one provider.
C20_ProviderAssignedOnce ==
  [][provider # Undefined => provider' = provider]_vars

====
